---- MODULE Spec2Model ----
(***************************************************************************)
(* State-machine model of the reactive cell engine of src/lib.rs           *)
(* (struct Reactor): input cells, compute cells, the downstream adjacency, *)
(* the recursive propagation of set_value / update_value with its RefCell  *)
(* borrows, and the callback bookkeeping.                                  *)
(*                                                                         *)
(* Cell and callback ids are the 0-based vector indices of the source; the *)
(* vectors are sequences, so the cell with id n is element n + 1.          *)
(***************************************************************************)
EXTENDS Integers, Sequences, FiniteSets, TLC

\* ------------------------------------------------------------------ bounds
\* The engines explored are those that fit one of three shapes: deep graphs
\* on one input, graphs on two inputs, and one cell with many callbacks.
MaxInputs == 1
MaxCompute == 3
MaxCallbacks == 2

WideInputs == 2
WideCompute == 2
WideCallbacks == 1

ManyCompute == 1
ManyCallbacks == 3

MaxDeps == 2

\* The value type T (Copy + PartialEq): the integers modulo ValMod; the host
\* passes the values 0 .. MaxValue to create_input and set_value.
ValMod == 3
T == 0 .. (ValMod - 1)
MaxValue == 1
Values == 0 .. MaxValue

\* The compute functions the host supplies (pure, Fn(&[T]) -> T): the sum of
\* the dependency values.
ComputeFuncs == {"sum"}

VARIABLES
    inputs,                 \* Vec<InputCell<T>>: [value, downstream]
    compute_cells,          \* Vec<RefCell<ComputeCell<T>>>
    values_before_update,   \* HashMap<usize, T>
    pc,                     \* position of the running public operation
    stack,                  \* the active set_value / update_value frames
    call,                   \* the set_value call in progress
    pre,                    \* compute cell values when that call began
    visited,                \* recomputations done by that call, in order
    fired,                  \* callback invocations done by that call, in order
    ret                     \* the last public operation and what it returned

vars == <<inputs, compute_cells, values_before_update, pc, stack,
          call, pre, visited, fired, ret>>

engine == <<inputs, compute_cells, values_before_update>>

\* ------------------------------------------------------------------ handles
Input(n) == [kind |-> "Input", id |-> n]
Compute(n) == [kind |-> "Compute", id |-> n]

\* Option<X>: None is the empty sequence, Some(x) the one-element sequence.
None == <<>>
Some(x) == <<x>>
unwrap(o) == o[1]

\* What a public operation returned: the operation, its handle arguments, the
\* variant returned and the handle or id the variant carries.
Ret(op, args, tag, kind, id) ==
    [op |-> op, args |-> args, tag |-> tag, kind |-> kind, id |-> id]

InputCell(v) == [value |-> v, downstream |-> <<>>]

ComputeCell(v, deps, f) ==
    [value |-> v, downstream |-> <<>>, dependencies |-> deps,
     compute_func |-> f, callbacks |-> <<>>]

RECURSIVE SumSeq(_)
SumSeq(s) == IF s = <<>> THEN 0 ELSE Head(s) + SumSeq(Tail(s))

\* Calling a stored compute_func on a slice of values.
Apply(f, args) == SumSeq(args) % ValMod

\* ------------------------------------------------------------------ helpers
valid(cell_id) ==
    IF cell_id.kind = "Input"
    THEN cell_id.id < Len(inputs)
    ELSE cell_id.id < Len(compute_cells)

\* Option<T>: None for a handle that names no cell.
value(cell_id) ==
    IF ~valid(cell_id) THEN None
    ELSE IF cell_id.kind = "Input"
         THEN Some(inputs[cell_id.id + 1].value)
         ELSE Some(compute_cells[cell_id.id + 1].value)

values_from_dependencies(dependencies) ==
    [k \in 1 .. Len(dependencies) |-> unwrap(value(dependencies[k]))]

\* A find that reports the head of the list instead of the handle found.
FirstInvalidHead(dependencies) ==
    LET bad == {k \in 1 .. Len(dependencies) : ~valid(dependencies[k])}
    IN  IF bad = {} THEN None ELSE Some(dependencies[1])

\* dependencies.iter().find(|id| !self.valid(id)): the first invalid handle.
FirstInvalid(dependencies) ==
    LET bad == {k \in 1 .. Len(dependencies) : ~valid(dependencies[k])}
    IN  IF bad = {} THEN None
        ELSE Some(dependencies[CHOOSE k \in bad : \A j \in bad : k <= j])

\* A registration that reaches input cells only.
RECURSIVE add_downstream_inputs_only(_, _, _, _)
add_downstream_inputs_only(ins, ccs, dependencies, new_cell_id) ==
    IF dependencies = <<>> THEN <<ins, ccs>>
    ELSE LET d == Head(dependencies)
             n == d.id + 1
         IN  IF d.kind = "Input"
             THEN add_downstream_inputs_only(
                      [ins EXCEPT ![n].downstream = Append(@, new_cell_id)],
                      ccs, Tail(dependencies), new_cell_id)
             ELSE add_downstream_inputs_only(ins, ccs, Tail(dependencies),
                                             new_cell_id)

\* A registration that looks a compute dependency up among the inputs when
\* an input has that index.
RECURSIVE add_downstream_any_kind(_, _, _, _)
add_downstream_any_kind(ins, ccs, dependencies, new_cell_id) ==
    IF dependencies = <<>> THEN <<ins, ccs>>
    ELSE LET d == Head(dependencies)
             n == d.id + 1
         IN  IF d.kind = "Input" \/ n <= Len(ins)
             THEN add_downstream_any_kind(
                      [ins EXCEPT ![n].downstream = Append(@, new_cell_id)],
                      ccs, Tail(dependencies), new_cell_id)
             ELSE add_downstream_any_kind(
                      ins,
                      [ccs EXCEPT ![n].downstream = Append(@, new_cell_id)],
                      Tail(dependencies), new_cell_id)

\* A registration that links both ways: a compute dependency also becomes a
\* downstream cell of the new cell.
RECURSIVE add_downstream_both_ways(_, _, _, _)
add_downstream_both_ways(ins, ccs, dependencies, new_cell_id) ==
    IF dependencies = <<>> THEN <<ins, ccs>>
    ELSE LET d == Head(dependencies)
             n == d.id + 1
         IN  IF d.kind = "Input"
             THEN add_downstream_both_ways(
                      [ins EXCEPT ![n].downstream = Append(@, new_cell_id)],
                      ccs, Tail(dependencies), new_cell_id)
             ELSE add_downstream_both_ways(
                      ins,
                      [ccs EXCEPT ![n].downstream = Append(@, new_cell_id),
                                  ![new_cell_id + 1].downstream =
                                      Append(@, d.id)],
                      Tail(dependencies), new_cell_id)

\* Both vectors after add_downstream_cell was called for every dependency in
\* order: the new cell is pushed once per occurrence of a dependency.
RECURSIVE add_downstream_cell(_, _, _, _)
add_downstream_cell(ins, ccs, dependencies, new_cell_id) ==
    IF dependencies = <<>> THEN <<ins, ccs>>
    ELSE LET d == Head(dependencies)
             n == d.id + 1
         IN  IF d.kind = "Input"
             THEN add_downstream_cell(
                      [ins EXCEPT ![n].downstream = Append(@, new_cell_id)],
                      ccs, Tail(dependencies), new_cell_id)
             ELSE add_downstream_cell(
                      ins,
                      [ccs EXCEPT ![n].downstream = Append(@, new_cell_id)],
                      Tail(dependencies), new_cell_id)

Callbacks == LET RECURSIVE Count(_)
                 Count(n) == IF n = 0 THEN 0
                             ELSE Len(compute_cells[n].callbacks) + Count(n - 1)
             IN  Count(Len(compute_cells))

\* Whether an engine with i inputs, c compute cells and k callback slots is
\* within the shapes explored.
fits(i, c, k) ==
    \/ i <= MaxInputs /\ c <= MaxCompute /\ k <= MaxCallbacks
    \/ i <= WideInputs /\ c <= WideCompute /\ k <= WideCallbacks
    \/ i <= MaxInputs /\ c <= ManyCompute /\ k <= ManyCallbacks

\* The handles a caller can pass: every existing cell and one dangling id
\* of each kind.
Handles == {Input(n) : n \in 0 .. Len(inputs)}
              \cup {Compute(n) : n \in 0 .. Len(compute_cells)}

DepLists == UNION {[1 .. n -> Handles] : n \in 0 .. MaxDeps}

\* ------------------------------------------------------------------ Init
Init ==
    /\ inputs = <<>>
    /\ compute_cells = <<>>
    /\ values_before_update = <<>>
    /\ pc = "idle"
    /\ stack = <<>>
    /\ call = None
    /\ pre = <<>>
    /\ visited = <<>>
    /\ fired = <<>>
    /\ ret = Ret("idle", <<>>, "", "", 0)

\* What a public operation other than set_value leaves alone.
quiet == <<stack, call, pre, visited, fired>>

\* A public operation other than set_value returns.
returns(r) == pc' = "returned" /\ ret' = r /\ UNCHANGED quiet

\* ------------------------------------------------------------------ create
create_input(initial) ==
    /\ pc = "idle"
    /\ fits(Len(inputs) + 1, Len(compute_cells), Callbacks)
    /\ inputs' = Append(inputs, InputCell(initial))
    /\ returns(Ret("create_input", <<>>, "InputCellId", "Input", Len(inputs)))
    /\ UNCHANGED <<compute_cells, values_before_update>>

create_compute_err(dependencies, compute_func) ==
    /\ pc = "idle"
    /\ FirstInvalid(dependencies) # None
    /\ LET cell_id == unwrap(FirstInvalid(dependencies))
       IN  returns(Ret("create_compute", <<>>, "Err", cell_id.kind, cell_id.id))
    /\ UNCHANGED engine

create_compute_ok(dependencies, compute_func) ==
    /\ pc = "idle"
    /\ FirstInvalid(dependencies) = None
    /\ fits(Len(inputs), Len(compute_cells) + 1, Callbacks)
    /\ LET new_cell_id == Len(compute_cells)
           cell == ComputeCell(
                       Apply(compute_func,
                             values_from_dependencies(dependencies)),
                       dependencies, compute_func)
           both == add_downstream_cell(inputs, Append(compute_cells, cell),
                                       dependencies, new_cell_id)
       IN  /\ inputs' = both[1]
           /\ compute_cells' = both[2]
           /\ returns(Ret("create_compute", <<>>, "Ok", "Compute", new_cell_id))
    /\ UNCHANGED values_before_update

create_compute(dependencies, compute_func) ==
    \/ create_compute_err(dependencies, compute_func)
    \/ create_compute_ok(dependencies, compute_func)

\* ------------------------------------------------------------------ callbacks
\* A callback slot is Option<Box<FnMut(T)>>: TRUE for Some(_), FALSE for the
\* None left behind by remove_callback.
add_callback_none(id) ==
    /\ pc = "idle"
    /\ ~valid(Compute(id))
    /\ returns(Ret("add_callback", <<id>>, "None", "", 0))
    /\ UNCHANGED engine

add_callback_some(id) ==
    /\ pc = "idle"
    /\ valid(Compute(id))
    /\ fits(Len(inputs), Len(compute_cells), Callbacks + 1)
    /\ compute_cells' =
           [compute_cells EXCEPT ![id + 1].callbacks = Append(@, TRUE)]
    /\ returns(Ret("add_callback", <<id>>, "Some", "Callback",
                    Len(compute_cells'[id + 1].callbacks) - 1))
    /\ UNCHANGED <<inputs, values_before_update>>

add_callback(id) == add_callback_none(id) \/ add_callback_some(id)

\* A removal that does not look at the slot: a tombstone is removed again.
remove_callback_result_again(cell_id, callback_id) ==
    IF ~valid(Compute(cell_id)) THEN "NonexistentCell"
    ELSE IF callback_id >= Len(compute_cells[cell_id + 1].callbacks)
         THEN "NonexistentCell"
         ELSE "Ok"

\* A removal that reports every miss as a missing callback.
remove_callback_result_one_error(cell_id, callback_id) ==
    IF ~valid(Compute(cell_id)) THEN "NonexistentCallback"
    ELSE LET callbacks == compute_cells[cell_id + 1].callbacks
         IN  IF callback_id >= Len(callbacks) THEN "NonexistentCallback"
             ELSE IF callbacks[callback_id + 1] THEN "Ok"
             ELSE "NonexistentCallback"

\* The Result remove_callback returns, as the code computes it.
remove_callback_result(cell_id, callback_id) ==
    IF ~valid(Compute(cell_id)) THEN "NonexistentCell"
    ELSE LET callbacks == compute_cells[cell_id + 1].callbacks
         IN  IF callback_id >= Len(callbacks) THEN "NonexistentCell"
             ELSE IF callbacks[callback_id + 1] THEN "Ok"
             ELSE "NonexistentCallback"

\* A removal that takes the slot out of the vector instead of leaving None.
remove_callback_compact(cell_id, callback_id) ==
    /\ pc = "idle"
    /\ LET res == remove_callback_result(cell_id, callback_id)
           slots == compute_cells[cell_id + 1].callbacks
       IN  /\ returns(Ret("remove_callback", <<cell_id, callback_id>>, res,
                           "", 0))
           /\ compute_cells' =
                  IF res = "Ok"
                  THEN [compute_cells EXCEPT ![cell_id + 1].callbacks =
                            SubSeq(slots, 1, callback_id) \o
                            SubSeq(slots, callback_id + 2, Len(slots))]
                  ELSE compute_cells
    /\ UNCHANGED <<inputs, values_before_update>>

remove_callback(cell_id, callback_id) ==
    /\ pc = "idle"
    /\ LET res == remove_callback_result(cell_id, callback_id)
       IN  /\ returns(Ret("remove_callback", <<cell_id, callback_id>>, res,
                           "", 0))
           /\ compute_cells' =
                  IF res = "Ok"
                  THEN [compute_cells EXCEPT
                            ![cell_id + 1].callbacks[callback_id + 1] = FALSE]
                  ELSE compute_cells
    /\ UNCHANGED <<inputs, values_before_update>>

\* A frame whose iteration starts at the second downstream cell.
FrameSkipFirst(cell_id, v) == [cell |-> cell_id, value |-> v, next |-> 2]

\* ------------------------------------------------------------------ set_value
\* A frame of the call stack: the cell whose downstream list is being
\* iterated (the input of set_value, or the compute cell of an update_value
\* call), the value it was just given, and the next downstream index.
Frame(cell_id, v) == [cell |-> cell_id, value |-> v, next |-> 1]

\* An iteration that stops after the first downstream cell.
downstream_first(cell_id) ==
    LET all == IF cell_id.kind = "Input"
               THEN inputs[cell_id.id + 1].downstream
               ELSE compute_cells[cell_id.id + 1].downstream
    IN  IF all = <<>> THEN <<>> ELSE <<Head(all)>>

downstream(cell_id) ==
    IF cell_id.kind = "Input"
    THEN inputs[cell_id.id + 1].downstream
    ELSE compute_cells[cell_id.id + 1].downstream

\* The compute cells whose RefCell is mutably borrowed: every update_value
\* call on the stack holds its `cell` guard until it returns.
borrowed_mut ==
    {stack[k].cell.id : k \in {j \in 1 .. Len(stack) :
                                   stack[j].cell.kind = "Compute"}}

\* insert(id, v) in place of entry(id).or_insert(v): a later visit overwrites.
insert(map, id, v) ==
    [k \in DOMAIN map \cup {id} |-> IF k = id THEN v ELSE map[k]]

\* values_before_update.entry(id).or_insert(v)
or_insert(map, id, v) ==
    IF id \in DOMAIN map THEN map
    ELSE [k \in DOMAIN map \cup {id} |-> IF k = id THEN v ELSE map[k]]

\* The dependencies whose value is read through self.value(): all but the
\* upstream cell, whose value is passed along.
read_dependencies(dependencies, upstream) ==
    {dependencies[k] : k \in {j \in 1 .. Len(dependencies) :
                                  dependencies[j] # upstream}}

\* The upstream cell recognised by its index alone, whatever its kind.
values_by_index(dependencies, upstream, upstream_value) ==
    [k \in 1 .. Len(dependencies) |->
        IF dependencies[k].id = upstream.id THEN upstream_value
        ELSE unwrap(value(dependencies[k]))]

values_from_dependencies_and_upstream(dependencies, upstream, upstream_value) ==
    [k \in 1 .. Len(dependencies) |->
        IF dependencies[k] = upstream THEN upstream_value
        ELSE unwrap(value(dependencies[k]))]

\* A set_value that answers true for a handle that names no input.
set_value_always_true(id, new_value) ==
    /\ pc = "idle"
    /\ ~valid(Input(id))
    /\ returns(Ret("set_value", <<id>>, "true", "", 0))
    /\ UNCHANGED engine

set_value_false(id, new_value) ==
    /\ pc = "idle"
    /\ ~valid(Input(id))
    /\ returns(Ret("set_value", <<id>>, "false", "", 0))
    /\ UNCHANGED engine

\* The stack once every frame whose for_each is exhausted has returned (and
\* with it dropped its borrow).
RECURSIVE unwind(_)
unwind(frames) ==
    IF frames = <<>> THEN frames
    ELSE LET top == frames[Len(frames)]
         IN  IF top.next > Len(downstream(top.cell))
             THEN unwind(SubSeq(frames, 1, Len(frames) - 1))
             ELSE frames

\* Line 208 follows the for_each of set_value once the stack is empty.
after_call(frames) == IF frames = <<>> THEN "callbacks" ELSE "propagate"

\* Lines 198-206: the input is written, then its downstream list is walked.
set_value_begin(id, new_value) ==
    /\ pc = "idle"
    /\ valid(Input(id))
    /\ inputs' = [inputs EXCEPT ![id + 1].value = new_value]
    /\ stack' = unwind(<<Frame(Input(id), new_value)>>)
    /\ pc' = after_call(stack')
    /\ call' = Some([id |-> id, new_value |-> new_value,
                     old_value |-> inputs[id + 1].value])
    /\ pre' = [k \in 1 .. Len(compute_cells) |-> compute_cells[k].value]
    /\ visited' = <<>>
    /\ fired' = <<>>
    /\ ret' = Ret("set_value", <<id>>, "running", "", 0)
    /\ UNCHANGED <<compute_cells, values_before_update>>

\* Whether the update_value call on cell `id`, made from the frame `top`,
\* panics: borrow_mut() of the cell (line 228) or borrow() of a dependency
\* read through value() (lines 149, 184) finds the RefCell mutably borrowed.
borrow_panics(id, top) ==
    \/ id \in borrowed_mut
    \/ \E d \in read_dependencies(compute_cells[id + 1].dependencies, top.cell) :
           d.kind = "Compute" /\ d.id \in borrowed_mut \cup {id}

\* One call of update_value, made by the for_each of the frame on top: the
\* borrow of the cell, the record of its value, the recomputation; then the
\* calls whose own for_each is exhausted return.
update_value ==
    /\ pc = "propagate"
    /\ LET top == stack[Len(stack)]
           id == downstream(top.cell)[top.next]
           cell == compute_cells[id + 1]
           new_value ==
               Apply(cell.compute_func,
                     values_from_dependencies_and_upstream(
                         cell.dependencies, top.cell, top.value))
       IN  /\ values_before_update' =
                  IF id \in borrowed_mut THEN values_before_update
                  ELSE or_insert(values_before_update, id, cell.value)
           /\ IF borrow_panics(id, top)
              THEN /\ pc' = "panicked"
                   /\ UNCHANGED <<compute_cells, stack, visited>>
              ELSE /\ compute_cells' =
                          [compute_cells EXCEPT ![id + 1].value = new_value]
                   /\ visited' =
                          Append(visited, [id |-> id, value |-> new_value,
                                           depth |-> Len(stack)])
                   /\ stack' =
                          unwind(Append([stack EXCEPT ![Len(stack)].next = @ + 1],
                                        Frame(Compute(id), new_value)))
                   /\ pc' = after_call(stack')
    /\ UNCHANGED <<inputs, call, pre, fired, ret>>

\* The live callback ids, newest first.
live_callbacks_newest_first(callbacks) ==
    LET RECURSIVE Live(_)
        Live(n) == IF n = 0 THEN <<>>
                   ELSE IF callbacks[n] THEN <<n - 1>> \o Live(n - 1)
                   ELSE Live(n - 1)
    IN  Live(Len(callbacks))

\* The callbacks of a cell that are Some(_), in vector order.
live_callbacks(callbacks) ==
    LET RECURSIVE Live(_)
        Live(n) == IF n = 0 THEN <<>>
                   ELSE IF callbacks[n] THEN Append(Live(n - 1), n - 1)
                   ELSE Live(n - 1)
    IN  Live(Len(callbacks))

\* Callbacks handed the recorded old value instead of the cell's value.
invocations_old(id, old_value) ==
    LET cell == compute_cells[id + 1]
        live == live_callbacks(cell.callbacks)
    IN  IF cell.value # old_value
        THEN [k \in 1 .. Len(live) |->
                 [cell |-> id, callback |-> live[k], arg |-> old_value]]
        ELSE <<>>

\* What one iteration of the loop of maybe_execute_callbacks invokes for the
\* entry (id, old_value): every live callback with the cell's value, or none.
invocations(id, old_value) ==
    LET cell == compute_cells[id + 1]
        live == live_callbacks(cell.callbacks)
    IN  IF cell.value # old_value
        THEN [k \in 1 .. Len(live) |->
                 [cell |-> id, callback |-> live[k], arg |-> cell.value]]
        ELSE <<>>

\* The orders in which a HashMap may iterate the keys in S.
Orders(S) ==
    {o \in [1 .. Cardinality(S) -> S] :
        \A i, j \in 1 .. Cardinality(S) : i # j => o[i] # o[j]}

RECURSIVE all_invocations(_)
all_invocations(order) ==
    IF order = <<>> THEN <<>>
    ELSE invocations(Head(order), values_before_update[Head(order)])
             \o all_invocations(Tail(order))

\* Line 208: the loop over the entries of values_before_update.
maybe_execute_callbacks ==
    /\ pc = "callbacks"
    /\ \E order \in Orders(DOMAIN values_before_update) :
           fired' = fired \o all_invocations(order)
    /\ pc' = "clear"
    /\ UNCHANGED <<inputs, compute_cells, values_before_update, stack,
                   call, pre, visited, ret>>

\* A return that leaves values_before_update as it is.
set_value_return_keep ==
    /\ pc = "clear"
    /\ pc' = "returned"
    /\ ret' = Ret("set_value", <<unwrap(call).id>>, "true", "", 0)
    /\ UNCHANGED <<inputs, compute_cells, values_before_update, stack, call,
                   pre, visited, fired>>

\* Lines 209-211: the scratch map is cleared and set_value returns true.
set_value_return ==
    /\ pc = "clear"
    /\ values_before_update' = <<>>
    /\ pc' = "returned"
    /\ ret' = Ret("set_value", <<unwrap(call).id>>, "true", "", 0)
    /\ UNCHANGED <<inputs, compute_cells, stack, call, pre, visited, fired>>

\* The host has the result and is free to make the next call.
next_call ==
    /\ pc = "returned"
    /\ pc' = "idle"
    /\ ret' = Ret("idle", <<>>, "", "", 0)
    /\ call' = None
    /\ pre' = <<>>
    /\ visited' = <<>>
    /\ fired' = <<>>
    /\ UNCHANGED <<inputs, compute_cells, values_before_update, stack>>

set_value(id, new_value) ==
    set_value_false(id, new_value) \/ set_value_begin(id, new_value)

\* ------------------------------------------------------------------ Next
Next ==
    \/ \E initial \in Values : create_input(initial)
    \/ \E dependencies \in DepLists, f \in ComputeFuncs :
           create_compute(dependencies, f)
    \/ \E id \in 0 .. Len(inputs), new_value \in Values :
           set_value(id, new_value)
    \/ update_value
    \/ maybe_execute_callbacks
    \/ set_value_return
    \/ next_call
    \/ \E id \in 0 .. Len(compute_cells) : add_callback(id)
    \/ \E cell_id \in 0 .. Len(compute_cells), callback_id \in 0 .. ManyCallbacks :
           /\ valid(Compute(cell_id)) =>
                  callback_id <= Len(compute_cells[cell_id + 1].callbacks)
           /\ remove_callback(cell_id, callback_id)

Spec == Init /\ [][Next]_vars

\* ------------------------------------------------------------------ claims
cells == 0 .. (Len(compute_cells) - 1)

cell_value(c) == compute_cells[c + 1].value

callback_ids(c) == 0 .. (Len(compute_cells[c + 1].callbacks) - 1)

is_live(c, k) == compute_cells[c + 1].callbacks[k + 1]

\* set_value has returned true and the host has not yet made another call.
set_value_returned ==
    pc = "returned" /\ ret.op = "set_value" /\ ret.tag = "true"

\* The set_value call is over: it returned true, or it panicked.
set_value_ended == set_value_returned \/ pc = "panicked"

\* The cell's value differs from the one it had when the call began.
changed(c) == cell_value(c) # pre[c + 1]

times_fired(c, k) ==
    Cardinality({i \in 1 .. Len(fired) :
                     fired[i].cell = c /\ fired[i].callback = k})

times_visited(c) ==
    Cardinality({i \in 1 .. Len(visited) : visited[i].id = c})

\* C1: set_value on an existing input never panics, on any graph that
\* create_input and create_compute can build.
C1_SetValueNeverPanics == pc # "panicked"

\* C2: when a set_value call is over, every live callback of every compute
\* cell whose value differs from its value before the call has been invoked
\* exactly once in the call, with the cell's final value.
C2_ChangedCellFiresOnce ==
    set_value_ended =>
        \A c \in cells :
            changed(c) =>
                /\ \A k \in callback_ids(c) :
                       is_live(c, k) => times_fired(c, k) = 1
                /\ \A i \in 1 .. Len(fired) :
                       fired[i].cell = c => fired[i].arg = cell_value(c)

\* C3: when a set_value call is over, no callback of a compute cell whose
\* value equals its value before the call has been invoked, whatever values
\* the cell held during the pass; and a call that sets the input to the
\* value it already holds invokes no callback and changes no cell's value.
C3_UnchangedCellFiresNothing ==
    set_value_ended =>
        /\ \A c \in cells :
               ~changed(c) => \A i \in 1 .. Len(fired) : fired[i].cell # c
        /\ unwrap(call).new_value = unwrap(call).old_value =>
               /\ fired = <<>>
               /\ \A c \in cells : ~changed(c)
               /\ inputs[unwrap(call).id + 1].value = unwrap(call).old_value

\* A call has returned in which a cell with a live callback was recomputed
\* twice, held another value in between, ended on its old value and fired
\* nothing.
C3_Witness ==
    /\ set_value_returned
    /\ \E c \in cells :
           /\ ~changed(c)
           /\ times_visited(c) >= 2
           /\ \E i \in 1 .. Len(visited) :
                  visited[i].id = c /\ visited[i].value # pre[c + 1]
           /\ \E k \in callback_ids(c) : is_live(c, k)
           /\ \A i \in 1 .. Len(fired) : fired[i].cell # c

\* C4: between public operations every compute cell's cached value equals
\* its compute function applied to the current values of its dependencies, in
\* declared order.
C4_CachedValuesConsistent ==
    pc \in {"idle", "returned"} =>
        \A c \in cells :
            cell_value(c) =
                Apply(compute_cells[c + 1].compute_func,
                      values_from_dependencies(compute_cells[c + 1].dependencies))

\* A call has returned that changed a cell depending on an input and on a
\* compute cell, after recomputing it more than once.
C4_Witness ==
    /\ set_value_returned
    /\ \E c \in cells :
           /\ changed(c)
           /\ times_visited(c) >= 2
           /\ \E j, k \in 1 .. Len(compute_cells[c + 1].dependencies) :
                  /\ compute_cells[c + 1].dependencies[j].kind = "Input"
                  /\ compute_cells[c + 1].dependencies[k].kind = "Compute"

\* C5: within a set_value call no step recomputes a cell once a callback has
\* been invoked, and every callback was handed the value its cell holds then:
\* every invocation follows the last recomputation of the call.
C5_CallbacksAfterPropagation ==
    [][fired' # <<>> =>
           /\ compute_cells' = compute_cells
           /\ visited' = visited
           /\ stack' = <<>>
           /\ \A i \in 1 .. Len(fired') :
                  fired'[i].arg = compute_cells'[fired'[i].cell + 1].value]_vars

\* Callbacks have fired in a call that recomputed one of their cells twice,
\* first to a value that was not the final one.
C5_Witness ==
    /\ pc = "clear"
    /\ \E i \in 1 .. Len(fired), j \in 1 .. Len(visited) :
           /\ visited[j].id = fired[i].cell
           /\ visited[j].value # fired[i].arg

\* C6: remove_callback on an existing compute cell with a callback id that
\* add_callback never issued for it fails with NonexistentCallback.
C6_NeverIssuedIsNonexistentCallback ==
    ( /\ pc = "returned"
      /\ ret.op = "remove_callback"
      /\ valid(Compute(ret.args[1]))
      /\ ret.args[2] >= Len(compute_cells[ret.args[1] + 1].callbacks) )
        => ret.tag = "NonexistentCallback"

\* C7: a removed callback is never invoked by a later set_value call, and
\* when such a call is over every callback still registered on a cell with a
\* removed callback has been invoked once if the cell's value changed.
C7_RemovedSilentOthersFire ==
    /\ \A i \in 1 .. Len(fired) : is_live(fired[i].cell, fired[i].callback)
    /\ set_value_ended =>
           \A c \in cells :
               (changed(c) /\ \E r \in callback_ids(c) : ~is_live(c, r)) =>
                   \A k \in callback_ids(c) :
                       is_live(c, k) => times_fired(c, k) = 1

\* C8: once remove_callback has returned Ok for a callback, the slot stays
\* removed and every later remove_callback with the same cell and id returns
\* NonexistentCallback, also after further add_callback calls on the cell.
C8_RemoveOkAtMostOnce ==
    [][\A c \in cells :
           \A k \in callback_ids(c) :
               ~is_live(c, k) =>
                   /\ ~compute_cells'[c + 1].callbacks[k + 1]
                   /\ ( /\ pc' = "returned"
                        /\ ret'.op = "remove_callback"
                        /\ ret'.args = <<c, k>> )
                          => ret'.tag = "NonexistentCallback"]_vars

\* A second removal of callback 0 has failed on a cell that was given
\* another callback after the first removal.
C8_Witness ==
    /\ pc = "returned"
    /\ ret.op = "remove_callback"
    /\ ret.tag = "NonexistentCallback"
    /\ ret.args[2] = 0
    /\ valid(Compute(ret.args[1]))
    /\ compute_cells[ret.args[1] + 1].callbacks = <<FALSE, TRUE>>

\* C9: remove_callback with a compute cell handle that names no compute cell
\* returns NonexistentCell whatever the callback id, and changes nothing.
C9_UnknownCellIsNonexistentCell ==
    [][\A cell_id \in 0 .. MaxCompute, callback_id \in 0 .. ManyCallbacks :
           (~valid(Compute(cell_id)) /\ remove_callback(cell_id, callback_id))
               => (ret'.tag = "NonexistentCell" /\ UNCHANGED engine)]_vars

\* remove_callback has failed on a missing cell of an engine that holds a
\* compute cell with a live callback, for a callback id other than 0.
C9_Witness ==
    /\ pc = "returned"
    /\ ret.op = "remove_callback"
    /\ ~valid(Compute(ret.args[1]))
    /\ ret.args[2] > 0
    /\ ret.tag = "NonexistentCell"
    /\ \E c \in cells : \E k \in callback_ids(c) : is_live(c, k)

\* C10: create_compute with a dependency list that holds a handle naming no
\* cell returns Err with an invalid handle of that list and leaves the cells,
\* their values and their downstream lists unchanged.
C10_InvalidDependencyRejected ==
    [][(pc = "idle" /\ pc' = "returned" /\ ret'.op = "create_compute") =>
           \A dependencies \in DepLists, f \in ComputeFuncs :
               ( /\ \E k \in 1 .. Len(dependencies) : ~valid(dependencies[k])
                 /\ create_compute(dependencies, f) )
                   => /\ ret'.tag = "Err"
                      /\ \E k \in 1 .. Len(dependencies) :
                             /\ dependencies[k] =
                                    [kind |-> ret'.kind, id |-> ret'.id]
                             /\ ~valid(dependencies[k])
                      /\ UNCHANGED engine]_vars

\* create_compute has returned Err with a dangling compute handle on an
\* engine that holds cells with downstream lists.
C10_Witness ==
    /\ pc = "returned"
    /\ ret.op = "create_compute"
    /\ ret.tag = "Err"
    /\ ret.kind = "Compute"
    /\ ~valid(Compute(ret.id))
    /\ Len(compute_cells) >= 1
    /\ Len(inputs) >= 1
    /\ inputs[1].downstream # <<>>

\* The number of times x occurs in the sequence s.
occurrences(s, x) == Cardinality({k \in 1 .. Len(s) : s[k] = x})

\* The cell named by the handle create_compute returned is well seeded and
\* registered with its dependencies.
seeded_and_registered ==
    LET cell == compute_cells[ret.id + 1]
    IN  /\ valid(Compute(ret.id))
        /\ \A k \in 1 .. Len(cell.dependencies) :
               valid(cell.dependencies[k])
        /\ value(Compute(ret.id)) =
               Some(Apply(cell.compute_func,
                          values_from_dependencies(cell.dependencies)))
        /\ \A k \in 1 .. Len(cell.dependencies) :
               occurrences(downstream(cell.dependencies[k]), ret.id) =
                   occurrences(cell.dependencies, cell.dependencies[k])

\* C11: create_compute with a dependency list whose handles all name cells
\* returns Ok with a handle that named no cell before; the handle names the
\* new cell, whose value is the compute function applied to the values its
\* dependencies hold, in the order given; and the new cell stands in the
\* downstream list of each dependency, once for each time it is listed.
C11_CreatedCellSeededAndRegistered ==
    [][(pc = "idle" /\ pc' = "returned" /\ ret'.op = "create_compute"
            /\ ret'.tag = "Ok") =>
           /\ ret'.id = Len(compute_cells)
           /\ Len(compute_cells') = Len(compute_cells) + 1
           /\ seeded_and_registered']_vars

\* create_compute has returned Ok for a cell that depends on an input cell
\* with a non-zero value and on a compute cell.
C11_Witness ==
    /\ pc = "returned"
    /\ ret.op = "create_compute"
    /\ ret.tag = "Ok"
    /\ LET cell == compute_cells[ret.id + 1]
       IN  /\ Len(cell.dependencies) = 2
           /\ cell.dependencies[1].kind = "Compute"
           /\ cell.dependencies[2].kind = "Input"
           /\ cell.value # 0
           /\ ret.id \in {downstream(cell.dependencies[1])[k] :
                             k \in 1 .. Len(downstream(cell.dependencies[1]))}

\* C12: set_value with an input handle that names no input returns false and
\* has no effect: no input or compute cell changes, no compute function is
\* re-evaluated and no callback is invoked.
C12_UnknownInputReturnsFalse ==
    [][\A id \in 0 .. WideInputs, new_value \in Values :
           (~valid(Input(id)) /\ set_value(id, new_value))
               => /\ pc' = "returned"
                  /\ ret'.op = "set_value"
                  /\ ret'.tag = "false"
                  /\ UNCHANGED engine
                  /\ visited' = <<>>
                  /\ fired' = <<>>]_vars

\* set_value has returned false on an engine that holds an input with a
\* downstream compute cell that has a live callback.
C12_Witness ==
    /\ pc = "returned"
    /\ ret.op = "set_value"
    /\ ret.tag = "false"
    /\ ~valid(Input(ret.args[1]))
    /\ \E i \in 1 .. Len(inputs) :
           \E k \in 1 .. Len(inputs[i].downstream) :
               \E j \in callback_ids(inputs[i].downstream[k]) :
                   is_live(inputs[i].downstream[k], j)

\* Whether compute cell c depends on input i, directly or through other
\* compute cells, by the dependency lists given to create_compute.
RECURSIVE depends_on(_, _)
depends_on(c, i) ==
    \E k \in 1 .. Len(compute_cells[c + 1].dependencies) :
        LET d == compute_cells[c + 1].dependencies[k]
        IN  IF d.kind = "Input" THEN d.id = i ELSE depends_on(d.id, i)

dependents(i) == {c \in cells : depends_on(c, i)}

\* C13: no step of a set_value call on input i touches a cell that i does
\* not reach: every other input keeps its value and its downstream list, and
\* every compute cell that does not depend on i, directly or through other
\* cells, keeps its cached value, is not recomputed, gets no entry in
\* values_before_update and has no callback invoked.
C13_UnreachableCellsUntouched ==
    [][call' # None =>
           LET i == unwrap(call').id
           IN  /\ \A j \in 0 .. (Len(inputs) - 1) :
                      j # i => inputs'[j + 1] = inputs[j + 1]
               /\ Len(inputs') = Len(inputs)
               /\ \A c \in cells \ dependents(i) :
                      /\ compute_cells'[c + 1] = compute_cells[c + 1]
                      /\ c \notin DOMAIN values_before_update'
                      /\ \A n \in 1 .. Len(visited') : visited'[n].id # c
                      /\ \A n \in 1 .. Len(fired') : fired'[n].cell # c]_vars

\* A call on one input has returned after changing a cell, on an engine
\* where another input with a non-zero value has a downstream cell with a
\* live callback that does not depend on the input set.
C13_Witness ==
    /\ set_value_returned
    /\ \E c \in dependents(unwrap(call).id) : changed(c)
    /\ \E j \in 0 .. (Len(inputs) - 1) :
           /\ j # unwrap(call).id
           /\ inputs[j + 1].value # 0
           /\ \E c \in dependents(j) \ dependents(unwrap(call).id) :
                  /\ cell_value(c) # 0
                  /\ \E k \in callback_ids(c) : is_live(c, k)

\* C14: on each compute cell the callback ids issued so far are the indices
\* of its callback slots, a number that no step decreases (remove_callback
\* leaves the slot in place); every successful add_callback returns the next
\* index, greater than every id issued for the cell before, and registers a
\* live callback under it. add_callback with a handle that names no compute
\* cell returns None and leaves the engine unchanged.
C14_CallbackIdsIncrease ==
    [][/\ \A c \in cells :
              Len(compute_cells'[c + 1].callbacks)
                  >= Len(compute_cells[c + 1].callbacks)
       /\ \A id \in 0 .. MaxCompute :
              add_callback(id) =>
                  IF valid(Compute(id))
                  THEN /\ ret'.tag = "Some"
                       /\ ret'.id = Len(compute_cells[id + 1].callbacks)
                       /\ \A k \in callback_ids(id) : ret'.id > k
                       /\ compute_cells'[id + 1].callbacks =
                              Append(compute_cells[id + 1].callbacks, TRUE)
                  ELSE /\ ret'.tag = "None"
                       /\ UNCHANGED engine]_vars

\* add_callback has returned id 2 on a cell whose callbacks 0 and 1 were
\* removed before.
C14_Witness ==
    /\ pc = "returned"
    /\ ret.op = "add_callback"
    /\ ret.tag = "Some"
    /\ ret.id = 2
    /\ compute_cells[ret.args[1] + 1].callbacks = <<FALSE, FALSE, TRUE>>

\* The positions in the log of invocations that belong to cell c.
fired_at(c) == {n \in 1 .. Len(fired) : fired[n].cell = c}

\* C15: when a set_value call invokes the callbacks of a cell, it invokes
\* the cell's live callbacks, and only those, in the order of their ids,
\* which is the order of their registration, whichever other callbacks of
\* the cell were removed.
C15_RegistrationOrderWithinCell ==
    \A c \in cells :
        /\ \A m, n \in fired_at(c) :
               m < n => fired[m].callback < fired[n].callback
        /\ fired_at(c) # {} =>
               {fired[n].callback : n \in fired_at(c)} =
                   {k \in callback_ids(c) : is_live(c, k)}

\* A call has returned that invoked callbacks 0 and 2 of a cell, in that
\* order, callback 1 having been removed.
C15_Witness ==
    /\ set_value_returned
    /\ \E c \in cells :
           /\ compute_cells[c + 1].callbacks = <<TRUE, FALSE, TRUE>>
           /\ \E m, n \in fired_at(c) :
                  m < n /\ fired[m].callback = 0 /\ fired[n].callback = 2

\* Input a, compute cells b1 and b2 created in that order, each depending on
\* a alone, and compute cell c depending on b1 and b2.
diamond(a, b1, b2, c) ==
    /\ b1 < b2
    /\ compute_cells[b1 + 1].dependencies = <<Input(a)>>
    /\ compute_cells[b2 + 1].dependencies = <<Input(a)>>
    /\ compute_cells[c + 1].dependencies \in
           {<<Compute(b1), Compute(b2)>>, <<Compute(b2), Compute(b1)>>}

\* The ids of the visits made to the cells of the set S, in order.
visits_to(S) ==
    LET in_S(v) == v.id \in S
        sel == SelectSeq(visited, in_S)
    IN  [n \in 1 .. Len(sel) |-> sel[n].id]

\* Every live callback of cell c was invoked once, with the cell's value.
fired_once_with_final(c) ==
    /\ \A k \in callback_ids(c) : is_live(c, k) => times_fired(c, k) = 1
    /\ \A n \in fired_at(c) : fired[n].arg = cell_value(c)

\* C16 as stated: on a diamond, a set_value call on the input that has
\* returned re-evaluated b1, b2 and c exactly once each, and if c changed,
\* c's callbacks were invoked once with c's final value.
C16_DiamondEachOnce ==
    set_value_returned =>
        \A b1, b2, c \in cells :
            diamond(unwrap(call).id, b1, b2, c) =>
                /\ times_visited(b1) = 1
                /\ times_visited(b2) = 1
                /\ times_visited(c) = 1
                /\ changed(c) => fired_once_with_final(c)

\* C16 amended: on a diamond, a set_value call on the input that has returned
\* re-evaluated b1, then c, then b2, then c again: b1 and b2 once each and c
\* twice, once after each of them; and if c changed, c's callbacks were
\* invoked once with c's final value.
C16_DiamondTipTwice ==
    set_value_returned =>
        \A b1, b2, c \in cells :
            diamond(unwrap(call).id, b1, b2, c) =>
                /\ visits_to({b1, b2, c}) = <<b1, c, b2, c>>
                /\ changed(c) => fired_once_with_final(c)

\* A call on the input of a diamond has returned; the tip changed and its
\* live callback fired.
C16_Witness ==
    /\ set_value_returned
    /\ \E b1, b2, c \in cells :
           /\ diamond(unwrap(call).id, b1, b2, c)
           /\ changed(c)
           /\ times_visited(c) = 2
           /\ \E k \in callback_ids(c) : is_live(c, k) /\ times_fired(c, k) = 1

\* C17 as stated: the visits of a propagation pass are in breadth-first
\* order: no visit at a greater distance from the input (the length of the
\* downstream path it was reached by) comes before a visit at a smaller one.
C17_BreadthFirst ==
    \A m, n \in 1 .. Len(visited) :
        m < n => visited[m].depth <= visited[n].depth

\* C17 amended: the visits of a propagation pass are in depth-first order:
\* the first visit is to the first downstream cell of the input; the visit
\* that follows a visit to a cell with downstream cells is to the first of
\* them, one step further from the input; and the visit that follows a visit
\* to a cell without downstream cells is no further from the input.
C17_DepthFirst ==
    /\ visited # <<>> =>
           /\ visited[1].id = downstream(Input(unwrap(call).id))[1]
           /\ visited[1].depth = 1
    /\ \A n \in 1 .. (Len(visited) - 1) :
           LET d == downstream(Compute(visited[n].id))
           IN  IF d # <<>>
               THEN /\ visited[n + 1].id = d[1]
                    /\ visited[n + 1].depth = visited[n].depth + 1
               ELSE visited[n + 1].depth <= visited[n].depth

\* A call has returned that visited a cell two steps from the input before
\* a cell one step from it.
C17_Witness ==
    /\ set_value_returned
    /\ \E m, n \in 1 .. Len(visited) :
           /\ m < n
           /\ visited[m].depth = 2
           /\ visited[n].depth = 1
           /\ visited[m].id # visited[n].id

\* C18: during a set_value call every entry of values_before_update holds
\* the value its cell had when the call began, whatever values the cell was
\* given since (the entry is written on the cell's first visit and no later
\* visit overwrites it); every cell visited has an entry; and when the pass
\* is over, before the map is cleared, the cells with an entry are exactly
\* the compute cells that depend on the input set.
C18_BeforeValuesFromCallStart ==
    /\ call # None =>
           \A id \in DOMAIN values_before_update :
               /\ id \in cells
               /\ values_before_update[id] = pre[id + 1]
    /\ pc \in {"propagate", "callbacks", "clear", "panicked"} =>
           \A n \in 1 .. Len(visited) :
               visited[n].id \in DOMAIN values_before_update
    /\ pc \in {"callbacks", "clear"} =>
           DOMAIN values_before_update = dependents(unwrap(call).id)

\* The pass is over and the map holds the call-start value of a cell that
\* was visited twice and given a third value on its first visit.
C18_Witness ==
    /\ pc = "clear"
    /\ \E c \in DOMAIN values_before_update :
           /\ times_visited(c) = 2
           /\ \E n \in 1 .. Len(visited) :
                  /\ visited[n].id = c
                  /\ visited[n].value # pre[c + 1]
                  /\ visited[n].value # cell_value(c)

\* Every compute dependency of a cell has a smaller index than the cell, and
\* every downstream cell of a compute cell a greater one.
created_before ==
    /\ \A c \in cells :
           /\ \A k \in 1 .. Len(compute_cells[c + 1].dependencies) :
                  LET d == compute_cells[c + 1].dependencies[k]
                  IN  /\ valid(d)
                      /\ d.kind = "Compute" => d.id < c
           /\ \A k \in 1 .. Len(compute_cells[c + 1].downstream) :
                  /\ compute_cells[c + 1].downstream[k] \in cells
                  /\ compute_cells[c + 1].downstream[k] > c
    /\ \A i \in 1 .. Len(inputs) :
           \A k \in 1 .. Len(inputs[i].downstream) :
               inputs[i].downstream[k] \in cells

\* The number of update_value calls made by iterating the downstream list of
\* cell h from position j on, each with the calls it makes in turn.
RECURSIVE calls_from(_, _)
calls_from(h, j) ==
    IF j > Len(downstream(h)) THEN 0
    ELSE 1 + calls_from(Compute(downstream(h)[j]), 1) + calls_from(h, j + 1)

\* The update_value calls still to be made by the lowest k frames.
RECURSIVE calls_left(_)
calls_left(k) ==
    IF k = 0 THEN 0
    ELSE calls_from(stack[k].cell, stack[k].next) + calls_left(k - 1)

\* C19: every compute dependency of a cell was created before the cell, so
\* the graph has no cycle, and every set_value call ends after finitely many
\* recomputations: the recomputations made plus those still to be made are
\* always the number of downstream paths from the input set, a pass that is
\* not over always has a call left to make, and a call that returned made
\* exactly that number of recomputations (a call that panicked, fewer).
C19_SetValueTerminates ==
    /\ created_before
    /\ call # None =>
           LET total == calls_from(Input(unwrap(call).id), 1)
           IN  /\ pc \in {"propagate", "callbacks", "clear"} =>
                      Len(visited) + calls_left(Len(stack)) = total
               /\ pc = "propagate" => calls_left(Len(stack)) > 0
               /\ pc \in {"callbacks", "clear"} => calls_left(Len(stack)) = 0
               /\ set_value_returned => Len(visited) = total
               /\ pc = "panicked" => Len(visited) < total

\* A call has returned after more recomputations than there are compute
\* cells, on a graph of three cells.
C19_Witness ==
    /\ set_value_returned
    /\ Len(compute_cells) = 3
    /\ Len(visited) > 3

\* C20: values_before_update is empty after every step that leaves the
\* engine between public operations; it is written only by the recomputations
\* of a set_value call and by the clear that the call makes once its
\* callbacks have fired, which empties it and invokes nothing further; no
\* other operation writes to it.
C20_ScratchMapEmptyBetweenCalls ==
    [][/\ pc' \in {"idle", "returned"} => values_before_update' = <<>>
       /\ values_before_update' # values_before_update =>
              \/ pc = "propagate" /\ call' # None
              \/ pc = "clear" /\ pc' = "returned" /\ ret'.op = "set_value"
       /\ pc = "clear" =>
              /\ values_before_update' = <<>>
              /\ fired' = fired
              /\ ret'.tag = "true"]_vars

\* A set_value call has returned true with the map empty again, after a pass
\* that recorded two cells and fired a callback.
C20_Witness ==
    /\ set_value_returned
    /\ values_before_update = <<>>
    /\ Cardinality({visited[n].id : n \in 1 .. Len(visited)}) >= 2
    /\ fired # <<>>
====
